---- MODULE Spec2Model ----
(***************************************************************************)
(* Model of attached_assets/main.py: the bootstrap of the Flask            *)
(* application (configuration from the environment, db.init_app,           *)
(* db.create_all, six register_blueprint calls, the catch-all view         *)
(* serve(path), and the __main__ entry point app.run(debug=True)).         *)
(*                                                                         *)
(* Python values are modelled as records [type, repr] so that a str and    *)
(* an int with the same digits stay different values.  URL paths are       *)
(* sequences of segments.  The file system below the static folder is a    *)
(* function from paths to "absent" / "file" / "dir".                       *)
(***************************************************************************)
EXTENDS Integers, Sequences, FiniteSets, TLC

VARIABLES
    launch,          \* "main": python main.py;  "import": module imported by a WSGI host
    env,             \* os.environ restricted to the PG* variables
    conn,            \* DB_USER .. DB_NAME and SQLALCHEMY_DATABASE_URI, or Unresolved
    static_folder,   \* app.static_folder
    fs,              \* what exists below the static folder
    mount_order,     \* the order in which the register_blueprint calls are made
    pc,              \* position of each OS process in main.py
    mounted,         \* per process: blueprints registered so far, in order
    url_map,         \* per process: app.url_map, the rules in registration order
    create_all_runs, \* completed executions of db.create_all() in this run
    reloads,         \* restarts of the serving child by the reloader
    ret,             \* outcome of the last call of serve(path)
    resp             \* the last HTTP response sent, with its request

vars == << launch, env, conn, static_folder, fs, mount_order, pc, mounted,
           url_map, create_all_runs, reloads, ret, resp >>

(***************************************************************************)
(* Bounds                                                                  *)
(***************************************************************************)
MaxReloads == 1

(***************************************************************************)
(* Python values                                                           *)
(***************************************************************************)
Str(s) == [type |-> "str", repr |-> s]

PyInt(s) == [type |-> "int", repr |-> s]

PyNone == [type |-> "NoneType", repr |-> "None"]

\* str(v), as an f-string replacement field renders a value
Format(v) == v.repr

(***************************************************************************)
(* Configuration (main.py 42-48)                                           *)
(***************************************************************************)
EnvVars == {"PGUSER", "PGPASSWORD", "PGHOST", "PGPORT", "PGDATABASE"}

\* the values a variable may carry when it is set: empty, or a custom one
CustomValue(k) ==
    CASE k = "PGUSER"     -> "madrasa"
      [] k = "PGPASSWORD" -> "s3cret"
      [] k = "PGHOST"     -> "db.internal"
      [] k = "PGPORT"     -> "6543"
      [] k = "PGDATABASE" -> "school"

Environments ==
    { e \in [EnvVars -> {PyNone, Str(""), Str("madrasa"), Str("s3cret"),
                         Str("db.internal"), Str("6543"), Str("school")}] :
        \A k \in EnvVars : e[k] \in {PyNone, Str(""), Str(CustomValue(k))} }

EmptyEnvironment == [k \in EnvVars |-> PyNone]

\* a plausible slip: `os.getenv(key) or default`, which also replaces ""
getenv_or_default(e, key, default) ==
    IF e[key] = PyNone \/ e[key] = Str("") THEN default ELSE e[key]

\* os.getenv(key, default): the default only when the key is absent
getenv(e, key, default) ==
    IF e[key] = PyNone THEN default ELSE e[key]

DB_USER(e) == getenv(e, "PGUSER", Str("postgres"))

DB_PASSWORD(e) == getenv(e, "PGPASSWORD", Str("password"))

DB_HOST(e) == getenv(e, "PGHOST", Str("localhost"))

DB_PORT(e) == getenv(e, "PGPORT", Str("5432"))

DB_NAME(e) == getenv(e, "PGDATABASE", Str("islamic_studies_mvp"))

\* the f-string of line 48, as the sequence of its pieces
SQLALCHEMY_DATABASE_URI(e) ==
    << "postgresql+psycopg2://", Format(DB_USER(e)), ":", Format(DB_PASSWORD(e)),
       "@", Format(DB_HOST(e)), ":", Format(DB_PORT(e)), "/", Format(DB_NAME(e)) >>

Unresolved == [resolved |-> FALSE]

ResolvedConfig(e) ==
    [ resolved |-> TRUE,
      user     |-> DB_USER(e),
      password |-> DB_PASSWORD(e),
      host     |-> DB_HOST(e),
      port     |-> DB_PORT(e),
      database |-> DB_NAME(e),
      uri      |-> SQLALCHEMY_DATABASE_URI(e) ]

(***************************************************************************)
(* The static folder and the file system                                   *)
(***************************************************************************)
StaticDir == "static"

NoStaticDir == "None"

IndexHtml == << "index.html" >>

\* names below the static folder whose presence varies
StaticNames == { << "app.js" >>, << "assets" >>, IndexHtml }

FileSystems ==
    { f \in [StaticNames -> {"absent", "file", "dir"}] :
        f[IndexHtml] \in {"absent", "file"} }

\* main.py itself lies next to the static folder (line 31), so static/../main.py exists
MainPy == << "..", "main.py" >>

\* werkzeug's safe_join refuses a path that leaves the directory
LeavesDirectory(path) == Len(path) > 0 /\ path[1] = ".."

\* kind of os.path.join(static_folder, path)
KindOf(files, path) ==
    IF path = MainPy THEN "file"
    ELSE IF path \in DOMAIN files THEN files[path]
    ELSE "absent"

\* os.path.exists(os.path.join(static_folder, path)): files and directories alike
path_exists(files, path) == KindOf(files, path) # "absent"

(***************************************************************************)
(* The catch-all view (main.py 68-83)                                      *)
(***************************************************************************)
Returned(status, body, sent, tier, probes) ==
    [ outcome |-> "return", status |-> status, body |-> body, sent |-> sent,
      tier |-> tier, probes |-> probes ]

Raised(exc, tier, probes) ==
    [ outcome |-> "raise", status |-> 0, body |-> exc, sent |-> << >>,
      tier |-> tier, probes |-> probes ]

\* flask.send_from_directory: NotFound when safe_join refuses the path or the
\* joined path is no regular file, the file's bytes with 200 otherwise
send_from_directory(files, path, tier, probes) ==
    IF LeavesDirectory(path) \/ KindOf(files, path) # "file"
    THEN Raised("NotFound", tier, probes)
    ELSE Returned(200, "file", path, tier, probes)

\* jsonify is used on line 83 but never imported (line 6): evaluating the
\* name raises NameError before any response is built
jsonify_welcome(tier, probes) == Raised("NameError", tier, probes)

\* a plausible slip: the index tier is tried before the file tier
serve_index_first(sf, files, path) ==
    IF sf = NoStaticDir
    THEN Returned(404, "Static folder not configured", << >>, "unconfigured", << >>)
    ELSE IF path_exists(files, IndexHtml)
    THEN send_from_directory(files, IndexHtml, "index", << IndexHtml >>)
    ELSE IF path # << >> /\ path_exists(files, path)
    THEN send_from_directory(files, path, "file", << IndexHtml, path >>)
    ELSE jsonify_welcome("welcome", << IndexHtml, path >>)

\* a plausible slip: the guard of lines 72-73 is missing, and
\* os.path.join(None, ...) raises TypeError
serve_no_guard(sf, files, path) ==
    IF sf = NoStaticDir
    THEN Raised("TypeError", "file", << >>)
    ELSE IF path # << >> /\ path_exists(files, path)
    THEN send_from_directory(files, path, "file", << path >>)
    ELSE IF path_exists(files, IndexHtml)
    THEN send_from_directory(files, IndexHtml, "index",
                             IF path = << >> THEN << IndexHtml >> ELSE << path, IndexHtml >>)
    ELSE jsonify_welcome("welcome",
                         IF path = << >> THEN << IndexHtml >> ELSE << path, IndexHtml >>)

\* serve(path), reading app.static_folder (sf) and the file system (files).
\* probes lists the paths handed to os.path.exists, in order: `path != ""`
\* short-circuits the first probe.
serve(sf, files, path) ==
    IF sf = NoStaticDir
    THEN Returned(404, "Static folder not configured", << >>, "unconfigured", << >>)
    ELSE IF path # << >> /\ path_exists(files, path)
    THEN send_from_directory(files, path, "file", << path >>)
    ELSE IF path_exists(files, IndexHtml)
    THEN send_from_directory(files, IndexHtml, "index",
                             IF path = << >> THEN << IndexHtml >> ELSE << path, IndexHtml >>)
    ELSE jsonify_welcome("welcome",
                         IF path = << >> THEN << IndexHtml >> ELSE << path, IndexHtml >>)

NoReturn == [outcome |-> "none"]

(***************************************************************************)
(* Blueprints and the URL map (main.py 58-70)                              *)
(***************************************************************************)
Blueprints ==
    {"user_bp", "attendance_bp", "memorization_bp", "lesson_bp", "quiz_bp", "payment_bp"}

\* the order of the register_blueprint calls in main.py
SourceOrder ==
    << "user_bp", "attendance_bp", "memorization_bp", "lesson_bp", "quiz_bp", "payment_bp" >>

MountOrders ==
    { o \in [1..6 -> Blueprints] : \A i, j \in 1..6 : i # j => o[i] # o[j] }

\* a plausible slip: quiz_bp mounted under the prefix of lesson_bp
url_prefix_colliding(bp) ==
    CASE bp = "user_bp"         -> << "api", "users" >>
      [] bp = "attendance_bp"   -> << "api", "attendance" >>
      [] bp = "memorization_bp" -> << "api", "memorization" >>
      [] bp = "lesson_bp"       -> << "api", "lessons" >>
      [] bp = "quiz_bp"         -> << "api", "lessons" >>
      [] bp = "payment_bp"      -> << "api", "payments" >>

\* the url_prefix argument of each register_blueprint call
url_prefix(bp) ==
    CASE bp = "user_bp"         -> << "api", "users" >>
      [] bp = "attendance_bp"   -> << "api", "attendance" >>
      [] bp = "memorization_bp" -> << "api", "memorization" >>
      [] bp = "lesson_bp"       -> << "api", "lessons" >>
      [] bp = "quiz_bp"         -> << "api", "quizzes" >>
      [] bp = "payment_bp"      -> << "api", "payments" >>

\* The routes a handler group declares, relative to its prefix.  The route
\* modules are opaque collaborators: each is taken to declare a collection
\* route and one item route, and nothing else.
BlueprintRules(bp) == << << >>, << "item" >> >>

\* p is a path-prefix of q (whole segments)
IsPathPrefix(p, q) == Len(p) <= Len(q) /\ SubSeq(q, 1, Len(p)) = p

UnderMountedPrefix(path) == \E bp \in Blueprints : IsPathPrefix(url_prefix(bp), path)

StaticRule(path, endpoint) == [kind |-> "static", path |-> path, endpoint |-> endpoint]

\* '/<path:path>': any non-empty path
PathRule(endpoint) == [kind |-> "path", path |-> << >>, endpoint |-> endpoint]

\* register_blueprint(bp, url_prefix=...): each rule of the blueprint is added
\* to the map with the prefix prepended
register_blueprint(map, bp) ==
    map \o [ i \in 1..Len(BlueprintRules(bp)) |->
               StaticRule(url_prefix(bp) \o BlueprintRules(bp)[i], bp) ]

\* the two @app.route decorators of serve
serve_rules(map) ==
    map \o << StaticRule(<< >>, "serve"), PathRule("serve") >>

RuleMatches(rule, path) ==
    CASE rule.kind = "static" -> rule.path = path
      [] rule.kind = "path"   -> path # << >>

\* werkzeug orders rules by weight: a rule of static parts only goes before a
\* rule with a converter; rules of equal weight keep their registration order
RuleBefore(map, i, j) ==
    \/ map[i].kind = "static" /\ map[j].kind = "path"
    \/ map[i].kind = map[j].kind /\ i < j

\* the endpoint the request path is dispatched to ("NotFound": no rule matches)
Match(map, path) ==
    LET hits == { i \in 1..Len(map) : RuleMatches(map[i], path) }
    IN  IF hits = {} THEN "NotFound"
        ELSE LET best == CHOOSE i \in hits : \A j \in hits \ {i} : RuleBefore(map, i, j)
             IN  map[best].endpoint

RECURSIVE MapOf(_, _)
\* the URL map after registering the first n blueprints of an order
MapOf(order, n) ==
    IF n = 0 THEN << >> ELSE register_blueprint(MapOf(order, n - 1), order[n])

\* the URL map main.py builds
SourceUrlMap == serve_rules(MapOf(SourceOrder, 6))

(***************************************************************************)
(* Requests and responses                                                  *)
(***************************************************************************)
NoOrigin == "none"

Origins == {NoOrigin, "https://a.example", "https://b.example"}

Paths ==
    { << >>, << "app.js" >>, << "assets" >>, IndexHtml, << "dashboard", "settings" >>,
      MainPy }
    \cup { url_prefix(bp) : bp \in Blueprints }
    \cup { url_prefix(bp) \o << "item" >> : bp \in Blueprints }
    \cup { url_prefix(bp) \o << "unknown" >> : bp \in Blueprints }

NoHeader == "absent"

\* CORS(app) with flask-cors defaults (origins "*", always_send): the
\* Access-Control-Allow-Origin header echoes the request's Origin, and is "*"
\* when the request has none
cors_after_request(origin) ==
    IF origin # NoOrigin THEN origin ELSE "*"

\* app.debug: app.run(debug=True) sets it; an importing WSGI host does not
Debug == launch = "main"

NoResponse == [handler |-> "none"]

Response(path, origin, handler, status, body, sent, acao) ==
    [ path |-> path, origin |-> origin, handler |-> handler, status |-> status,
      body |-> body, sent |-> sent, acao |-> acao ]

\* What Flask makes of the view's outcome.  A returned value and an
\* HTTPException (NotFound) become a response that passes the after_request
\* hooks.  Any other exception is a 500: with app.debug it propagates to the
\* debugger, past the hooks; without, the 500 response passes them.
finalize_request(r, path, origin, debug) ==
    IF r.outcome = "return"
    THEN Response(path, origin, "serve", r.status, r.body, r.sent, cors_after_request(origin))
    ELSE IF r.body = "NotFound"
    THEN Response(path, origin, "serve", 404, "Not Found", << >>, cors_after_request(origin))
    ELSE IF debug
    THEN Response(path, origin, "serve", 500, r.body, << >>, NoHeader)
    ELSE Response(path, origin, "serve", 500, "Internal Server Error", << >>,
                  cors_after_request(origin))

\* the response of a handler group: its status and body are the group's own
GroupResponse(path, origin, bp) ==
    Response(path, origin, bp, 0, "delegated", << >>, cors_after_request(origin))

(***************************************************************************)
(* Processes.  `python main.py` runs the module in the process started by  *)
(* the user ("parent"); app.run(debug=True) turns on werkzeug's reloader,  *)
(* which keeps the parent as a supervisor and runs the module again, from  *)
(* its first line, in a child that serves.  An importing WSGI host runs    *)
(* the module once, in "parent", and serves from it.                       *)
(***************************************************************************)
Procs == {"parent", "child"}

Serving(p) == pc[p] = "serving"

StartupFailed == \E p \in Procs : pc[p] = "failed"

\* lines 42-49
ResolveConfig(p) ==
    /\ pc[p] = "config"
    /\ conn' = ResolvedConfig(env)
    /\ pc' = [pc EXCEPT ![p] = "init_db"]
    /\ UNCHANGED << launch, env, static_folder, fs, mount_order, mounted, url_map,
                    create_all_runs, reloads, ret, resp >>

\* line 52
InitDb(p) ==
    /\ pc[p] = "init_db"
    /\ pc' = [pc EXCEPT ![p] = "create_all"]
    /\ UNCHANGED << launch, env, conn, static_folder, fs, mount_order, mounted, url_map,
                    create_all_runs, reloads, ret, resp >>

\* a plausible slip: the failure is caught and the module carries on
AfterCreateAllSwallowed(ok) == "register"

\* lines 55-56 sit at module level, outside any try: an exception of
\* db.create_all() ends the module, and with it the process
AfterCreateAll(ok) == IF ok THEN "register" ELSE "failed"

\* lines 55-56: the database is reachable (ok) or not
CreateAll(p) ==
    /\ pc[p] = "create_all"
    /\ \E ok \in BOOLEAN :
         /\ pc' = [pc EXCEPT ![p] = AfterCreateAll(ok)]
         /\ create_all_runs' = IF ok THEN create_all_runs + 1 ELSE create_all_runs
    /\ UNCHANGED << launch, env, conn, static_folder, fs, mount_order, mounted, url_map,
                    reloads, ret, resp >>

\* lines 59-64, one call at a time
RegisterBlueprint(p) ==
    /\ pc[p] = "register"
    /\ LET bp == mount_order[Len(mounted[p]) + 1]
       IN  /\ url_map' = [url_map EXCEPT ![p] = register_blueprint(@, bp)]
           /\ mounted' = [mounted EXCEPT ![p] = Append(@, bp)]
           /\ pc' = [pc EXCEPT ![p] =
                       IF Len(mounted[p]) + 1 = Len(mount_order) THEN "routes" ELSE "register"]
    /\ UNCHANGED << launch, env, conn, static_folder, fs, mount_order,
                    create_all_runs, reloads, ret, resp >>

\* lines 68-70
AddServeRoutes(p) ==
    /\ pc[p] = "routes"
    /\ url_map' = [url_map EXCEPT ![p] = serve_rules(@)]
    /\ pc' = [pc EXCEPT ![p] = "entry"]
    /\ UNCHANGED << launch, env, conn, static_folder, fs, mount_order, mounted,
                    create_all_runs, reloads, ret, resp >>

\* line 85 false: the module was imported, and its host serves `app`
ServeImported(p) ==
    /\ pc[p] = "entry"
    /\ launch = "import"
    /\ pc' = [pc EXCEPT ![p] = "serving"]
    /\ UNCHANGED << launch, env, conn, static_folder, fs, mount_order, mounted, url_map,
                    create_all_runs, reloads, ret, resp >>

\* lines 85-87: app.run(debug=True).  The process started by the user
\* becomes the reloader's supervisor; the process the reloader started serves.
RunMain(p) ==
    /\ pc[p] = "entry"
    /\ launch = "main"
    /\ pc' = [pc EXCEPT ![p] = IF p = "parent" THEN "supervise" ELSE "serving"]
    /\ UNCHANGED << launch, env, conn, static_folder, fs, mount_order, mounted, url_map,
                    create_all_runs, reloads, ret, resp >>

\* the supervisor starts the child, which runs main.py from its first line
SpawnChild ==
    /\ pc["parent"] = "supervise"
    /\ pc["child"] = "off"
    /\ pc' = [pc EXCEPT !["child"] = "config"]
    /\ mounted' = [mounted EXCEPT !["child"] = << >>]
    /\ url_map' = [url_map EXCEPT !["child"] = << >>]
    /\ UNCHANGED << launch, env, conn, static_folder, fs, mount_order,
                    create_all_runs, reloads, ret, resp >>

\* a watched file changed: the serving child exits with code 3 and the
\* supervisor starts it again
Reload ==
    /\ pc["parent"] = "supervise"
    /\ pc["child"] = "serving"
    /\ reloads < MaxReloads
    /\ reloads' = reloads + 1
    /\ pc' = [pc EXCEPT !["child"] = "off"]
    /\ UNCHANGED << launch, env, conn, static_folder, fs, mount_order, mounted, url_map,
                    create_all_runs, ret, resp >>

\* the child ended with another code than 3: the supervisor exits with it
SupervisorExit ==
    /\ pc["parent"] = "supervise"
    /\ pc["child"] = "failed"
    /\ pc' = [pc EXCEPT !["parent"] = "exited"]
    /\ UNCHANGED << launch, env, conn, static_folder, fs, mount_order, mounted, url_map,
                    create_all_runs, reloads, ret, resp >>

\* the response of process p to a request: routing, the view, the hooks
Respond(p, path, origin) ==
    LET endpoint == Match(url_map[p], path)
    IN  IF endpoint = "serve"
        THEN finalize_request(serve(static_folder, fs, path), path, origin, Debug)
        ELSE GroupResponse(path, origin, endpoint)

\* one request, from routing to the response
HandleRequest(p) ==
    /\ Serving(p)
    /\ \E path \in Paths, origin \in Origins :
         /\ resp' = Respond(p, path, origin)
         /\ ret' = IF Match(url_map[p], path) = "serve"
                   THEN serve(static_folder, fs, path)
                   ELSE NoReturn
    /\ UNCHANGED << launch, env, conn, static_folder, fs, mount_order, pc, mounted,
                    url_map, create_all_runs, reloads >>

\* serve(path) called on its own
ServeCall ==
    /\ \E path \in Paths : ret' = serve(static_folder, fs, path)
    /\ UNCHANGED << launch, env, conn, static_folder, fs, mount_order, pc, mounted,
                    url_map, create_all_runs, reloads, resp >>

(***************************************************************************)
(* The program: every way of starting it, against every file system        *)
(***************************************************************************)
Init ==
    /\ launch \in {"main", "import"}
    /\ env = EmptyEnvironment
    /\ conn = Unresolved
    /\ static_folder = StaticDir
    /\ fs \in FileSystems
    /\ mount_order = SourceOrder
    /\ pc = [p \in Procs |-> IF p = "parent" THEN "config" ELSE "off"]
    /\ mounted = [p \in Procs |-> << >>]
    /\ url_map = [p \in Procs |-> << >>]
    /\ create_all_runs = 0
    /\ reloads = 0
    /\ ret = NoReturn
    /\ resp = NoResponse

Next ==
    \/ \E p \in Procs : ResolveConfig(p)
    \/ \E p \in Procs : InitDb(p)
    \/ \E p \in Procs : CreateAll(p)
    \/ \E p \in Procs : RegisterBlueprint(p)
    \/ \E p \in Procs : AddServeRoutes(p)
    \/ \E p \in Procs : ServeImported(p)
    \/ \E p \in Procs : RunMain(p)
    \/ SpawnChild
    \/ Reload
    \/ SupervisorExit
    \/ \E p \in Procs : HandleRequest(p)

Spec == Init /\ [][Next]_vars

(***************************************************************************)
(* Configuration resolution alone, over every environment                  *)
(***************************************************************************)
InitConfig ==
    /\ launch = "import"
    /\ env \in Environments
    /\ conn = Unresolved
    /\ static_folder = StaticDir
    /\ fs = [n \in StaticNames |-> "absent"]
    /\ mount_order = SourceOrder
    /\ pc = [p \in Procs |-> IF p = "parent" THEN "config" ELSE "off"]
    /\ mounted = [p \in Procs |-> << >>]
    /\ url_map = [p \in Procs |-> << >>]
    /\ create_all_runs = 0
    /\ reloads = 0
    /\ ret = NoReturn
    /\ resp = NoResponse

NextConfig == \E p \in Procs : ResolveConfig(p)

SpecConfig == InitConfig /\ [][NextConfig]_vars

(***************************************************************************)
(* serve(path) as a function of app.static_folder, the file system and     *)
(* the path                                                                *)
(***************************************************************************)
InitServe ==
    /\ launch = "import"
    /\ env = EmptyEnvironment
    /\ conn = ResolvedConfig(EmptyEnvironment)
    /\ static_folder \in {StaticDir, NoStaticDir}
    /\ fs \in FileSystems
    /\ mount_order = SourceOrder
    /\ pc = [p \in Procs |-> IF p = "parent" THEN "serving" ELSE "off"]
    /\ mounted = [p \in Procs |-> IF p = "parent" THEN SourceOrder ELSE << >>]
    /\ url_map = [p \in Procs |-> IF p = "parent" THEN SourceUrlMap ELSE << >>]
    /\ create_all_runs = 1
    /\ reloads = 0
    /\ ret = NoReturn
    /\ resp = NoResponse

NextServe == ServeCall

SpecServe == InitServe /\ [][NextServe]_vars

(***************************************************************************)
(* Mounting in every order                                                 *)
(***************************************************************************)
InitMount ==
    /\ launch = "import"
    /\ env = EmptyEnvironment
    /\ conn = ResolvedConfig(EmptyEnvironment)
    /\ static_folder = StaticDir
    /\ fs = [n \in StaticNames |-> IF n = << "assets" >> THEN "dir" ELSE "file"]
    /\ mount_order \in MountOrders
    /\ pc = [p \in Procs |-> IF p = "parent" THEN "register" ELSE "off"]
    /\ mounted = [p \in Procs |-> << >>]
    /\ url_map = [p \in Procs |-> << >>]
    /\ create_all_runs = 1
    /\ reloads = 0
    /\ ret = NoReturn
    /\ resp = NoResponse

NextMount ==
    \/ \E p \in Procs : RegisterBlueprint(p)
    \/ \E p \in Procs : AddServeRoutes(p)
    \/ \E p \in Procs : ServeImported(p)

SpecMount == InitMount /\ [][NextMount]_vars

(***************************************************************************)
(* Properties                                                              *)
(***************************************************************************)
Handled == resp # NoResponse

ByServe == Handled /\ resp.handler = "serve"

\* the path names a regular file below the static folder
NamesStaticFile(path) ==
    path # << >> /\ ~LeavesDirectory(path) /\ KindOf(fs, path) = "file"

IndexPresent == KindOf(fs, IndexHtml) = "file"

SentFile(path) == resp.status = 200 /\ resp.body = "file" /\ resp.sent = path

\* C1: a request handled by serve, with the static folder configured, whose
\* non-empty path names an existing file below the static folder is answered
\* with that file and 200, with or without an index.html.
C1_FileTierFirst ==
    (ByServe /\ static_folder = StaticDir /\ NamesStaticFile(resp.path))
        => SentFile(resp.path)

C1_Witness ==
    /\ ByServe
    /\ resp.path = << "app.js" >>
    /\ NamesStaticFile(resp.path)
    /\ IndexPresent
    /\ SentFile(<< "app.js" >>)

\* C2: a request outside the mounted prefixes whose path names no existing
\* file below the static folder (the empty path, a directory, ...) is answered
\* with index.html and 200 whenever index.html exists.
C2_SpaFallback ==
    (Handled /\ ~UnderMountedPrefix(resp.path) /\ ~NamesStaticFile(resp.path) /\ IndexPresent)
        => (resp.handler = "serve" /\ SentFile(IndexHtml))

\* C3: without an index.html, a request to serve whose path is empty or names
\* no existing file is answered with the JSON welcome message and 200, never
\* with a 404, a 500 or an exception.
C3_WelcomeFallback ==
    (ByServe /\ ~IndexPresent /\ ~NamesStaticFile(resp.path))
        => (resp.status = 200 /\ resp.body = "welcome")

\* C4: a request whose path lies under a mounted prefix goes to the handler
\* group of that prefix, also when the group has no route for it, and never
\* to serve.
C4_PrefixesNeverFallThrough ==
    \A bp \in Blueprints :
        (Handled /\ IsPathPrefix(url_prefix(bp), resp.path)) => resp.handler = bp

\* C5: db.create_all() completes exactly once in a run, before the first
\* request is handled, and never a second time.
C5_SchemaExactlyOnce ==
    /\ create_all_runs <= 1
    /\ ((Handled \/ \E p \in Procs : Serving(p)) => create_all_runs = 1)

\* C6: a process whose db.create_all() fails ends failed and stays so; from
\* then on no process serves, no request is answered, and db.create_all() is
\* not run again.
C6_FailedStartupNeverServes ==
    [][ \A p \in Procs :
          /\ (pc[p] = "create_all" /\ pc'[p] # "create_all"
                /\ create_all_runs' = create_all_runs) => pc'[p] = "failed"
          /\ pc[p] = "failed" =>
                /\ pc'[p] = "failed"
                /\ resp' = resp
                /\ create_all_runs' = create_all_runs
                /\ \A q \in Procs : ~Serving(q) /\ pc'[q] \notin {"serving", "create_all"}
      ]_vars

C6_Witness ==
    /\ pc["child"] = "failed"
    /\ pc["parent"] = "exited"
    /\ Handled

\* the defaults as documented, the port an integer
DocumentedDefault(k) ==
    CASE k = "PGUSER"     -> Str("postgres")
      [] k = "PGPASSWORD" -> Str("password")
      [] k = "PGHOST"     -> Str("localhost")
      [] k = "PGPORT"     -> PyInt("5432")
      [] k = "PGDATABASE" -> Str("islamic_studies_mvp")

\* the defaults with the port as text
TextDefault(k) == IF k = "PGPORT" THEN Str("5432") ELSE DocumentedDefault(k)

FieldOf(c, k) ==
    CASE k = "PGUSER"     -> c.user
      [] k = "PGPASSWORD" -> c.password
      [] k = "PGHOST"     -> c.host
      [] k = "PGPORT"     -> c.port
      [] k = "PGDATABASE" -> c.database

UriTemplate(c) ==
    << "postgresql+psycopg2://", c.user.repr, ":", c.password.repr, "@", c.host.repr,
       ":", c.port.repr, "/", c.database.repr >>

\* C7 as stated: every present variable is used, every absent one resolves to
\* its documented default, the port default being the integer 5432; no field is
\* null and the connection string is built from the resolved fields.
C7_ConfigResolutionIntegerPort ==
    conn.resolved =>
        /\ \A k \in EnvVars :
             /\ FieldOf(conn, k) = IF env[k] # PyNone THEN env[k] ELSE DocumentedDefault(k)
             /\ FieldOf(conn, k) # PyNone
        /\ conn.uri = UriTemplate(conn)

\* C7, amended: the same, with the port default the text "5432" (every field
\* is a string, none is converted to an integer).
C7_ConfigResolution ==
    conn.resolved =>
        /\ \A k \in EnvVars :
             /\ FieldOf(conn, k) = IF env[k] # PyNone THEN env[k] ELSE TextDefault(k)
             /\ FieldOf(conn, k).type = "str"
        /\ conn.uri = UriTemplate(conn)

C7_Witness ==
    /\ conn.resolved
    /\ env["PGPORT"] = PyNone
    /\ env["PGUSER"] = Str("")
    /\ env["PGHOST"] = Str("db.internal")
    /\ conn.port = Str("5432")

\* C8: with app.static_folder None, serve returns 404 with the diagnostic
\* message for every path, raises nothing, probes nothing in the file system
\* and enters none of the three tiers.
C8_UnconfiguredStaticFolder ==
    (static_folder = NoStaticDir /\ ret # NoReturn) =>
        /\ ret.outcome = "return"
        /\ ret.status = 404
        /\ ret.body = "Static folder not configured"
        /\ ret.probes = << >>
        /\ ret.tier = "unconfigured"

C8_Witness ==
    /\ static_folder = NoStaticDir
    /\ ret # NoReturn
    /\ ret.status = 404

\* the response may be read by a page of the request's origin
PermittedFor(r) == r.origin = NoOrigin \/ r.acao \in {"*", r.origin}

\* C9: the response to a request does not depend on the request's origin, and
\* the cross-origin policy permits it, on every route.
C9_NoOriginRejection ==
    Handled =>
        /\ PermittedFor(resp)
        /\ \A p \in Procs, o \in Origins :
             Serving(p) =>
                LET other == Respond(p, resp.path, o)
                IN  /\ other.status = resp.status
                    /\ other.body = resp.body
                    /\ other.sent = resp.sent
                    /\ other.handler = resp.handler
                    /\ PermittedFor(other)

\* C10: the six prefixes are pairwise distinct, none is a path-prefix of
\* another, and whatever the order of the register_blueprint calls every path
\* is dispatched as in the order of main.py.
C10_MountOrderIndependent ==
    /\ \A a, b \in Blueprints :
         a # b => ~IsPathPrefix(url_prefix(a), url_prefix(b))
    /\ \A p \in Procs :
         pc[p] \in {"entry", "serving"} =>
            \A path \in Paths : Match(url_map[p], path) = Match(SourceUrlMap, path)

C10_Witness ==
    /\ pc["parent"] = "serving"
    /\ mount_order[1] = "payment_bp"
    /\ mount_order[6] = "user_bp"
    /\ Match(url_map["parent"], << "api", "users", "item" >>) = "user_bp"
    /\ Match(url_map["parent"], << "api", "users", "unknown" >>) = "serve"

====
